---------------------------- MODULE Spec2Model ----------------------------
(***************************************************************************)
(* Content negotiation and error encoding of                               *)
(* examples/account/gen/transport/encoding_http.go.                        *)
(*                                                                         *)
(* Strings are sequences of one-character strings, so that trimming,       *)
(* lower-casing, cutting at ';' and concatenation are computed, not        *)
(* assumed.                                                                *)
(***************************************************************************)
EXTENDS Integers, Sequences, FiniteSets, TLC

(***************************************************************************)
(* Bounds of the model.                                                    *)
(***************************************************************************)
\* number of requests handled concurrently
NReq == 2
\* number of times a request's Accept header is rewritten by its handler
MaxHeaderChanges == 1

Req == 1..NReq

\* a variable that holds no object yet, and one that holds no string yet
None == [none |-> TRUE]
NoString == <<>>

(***************************************************************************)
(* Characters and strings.                                                 *)
(***************************************************************************)
UpperChars == <<"A","B","C","G","J","L","M","N","O","P","S","T","X">>
LowerChars == <<"a","b","c","g","j","l","m","n","o","p","s","t","x">>

\* unicode.ToLower on one character
ToLowerChar(c) ==
    IF \E k \in 1..Len(UpperChars) : UpperChars[k] = c
    THEN LowerChars[CHOOSE k \in 1..Len(UpperChars) : UpperChars[k] = c]
    ELSE c

\* strings.ToLower
ToLower(s) == [k \in 1..Len(s) |-> ToLowerChar(s[k])]

\* unicode.IsSpace
IsSpace(c) == c = " "

\* mime.isTokenChar: a printable ASCII character that is no tspecial
\* ( ) < > @ , ; : \ " / [ ] ? = and no space
IsTokenChar(c) == c \notin {" ", "/", ";", "=", ",", ":", "(", ")", "<", ">",
                            "@", "\\", "\"", "[", "]", "?"}

Drop(s, n) == SubSeq(s, n + 1, Len(s))
Take(s, n) == SubSeq(s, 1, n)

\* the number of positions of 1..n before the first one in at (n when at is
\* empty), and the number after the last one in at
Before(at, n) ==
    IF at = {} THEN n ELSE (CHOOSE k \in at : \A j \in at : k <= j) - 1
After(at, n) ==
    IF at = {} THEN n ELSE n - (CHOOSE k \in at : \A j \in at : k >= j)

LeadingSpaces(s) == Before({k \in 1..Len(s) : ~IsSpace(s[k])}, Len(s))

TrailingSpaces(s) == After({k \in 1..Len(s) : ~IsSpace(s[k])}, Len(s))

\* strings.TrimLeftFunc(s, unicode.IsSpace)
TrimLeft(s) == Drop(s, LeadingSpaces(s))

\* strings.TrimSpace
TrimSpace(s) ==
    LET l == TrimLeft(s) IN Take(l, Len(l) - TrailingSpaces(l))

\* strings.HasPrefix(s, c) for a one-character prefix
HasPrefix(s, c) == s # <<>> /\ Head(s) = c

\* length of the longest prefix of token characters
TokenLen(s) == Before({k \in 1..Len(s) : ~IsTokenChar(s[k])}, Len(s))

\* mime.consumeToken: (token, rest)
ConsumeToken(s) ==
    LET n == TokenLen(s) IN [token |-> Take(s, n), rest |-> Drop(s, n)]

\* index of the first ';' of s, Len(s)+1 when there is none
SemiIndex(s) == Before({k \in 1..Len(s) : s[k] = ";"}, Len(s)) + 1

\* mime.checkMediaTypeDisposition: TRUE when s is token or token "/" token
CheckMediaTypeDisposition(s) ==
    LET t == ConsumeToken(s) IN
    IF t.token = <<>> THEN FALSE
    ELSE IF t.rest = <<>> THEN TRUE
    ELSE IF ~HasPrefix(t.rest, "/") THEN FALSE
    ELSE LET u == ConsumeToken(Tail(t.rest)) IN
         u.token # <<>> /\ u.rest = <<>>

\* mime.consumeMediaParam: (key, value, rest); key = <<>> when v does not
\* start with a parameter.  Values are tokens (the alphabet has no quote).
ConsumeMediaParam(v) ==
    LET fail == [key |-> <<>>, value |-> <<>>, rest |-> v]
        r1   == TrimLeft(v)
    IN  IF ~HasPrefix(r1, ";") THEN fail
        ELSE LET p == ConsumeToken(TrimLeft(Tail(r1)))
                 r2 == TrimLeft(p.rest)
             IN  IF p.token = <<>> THEN fail
                 ELSE IF ~HasPrefix(r2, "=") THEN fail
                 ELSE LET r3 == TrimLeft(Tail(r2))
                          val == ConsumeToken(r3)
                      IN  IF val.token = <<>> THEN fail
                          ELSE [key |-> ToLower(p.token), value |-> val.token,
                                rest |-> val.rest]

\* the parameter loop of mime.ParseMediaType on v, seen the set of keys
\* read so far: "ok", "invalid" (ErrInvalidMediaParameter) or "duplicate"
RECURSIVE Params(_, _)
Params(v, seen) ==
    LET w == TrimLeft(v) IN
    IF w = <<>> THEN "ok"
    ELSE LET p == ConsumeMediaParam(w) IN
         IF p.key = <<>>
         THEN IF TrimSpace(p.rest) = <<";">> THEN "ok" ELSE "invalid"
         ELSE IF p.key \in seen THEN "duplicate"
         ELSE Params(p.rest, seen \cup {p.key})

\* mime.ParseMediaType: [ok, mediaType]; ok is err == nil.  An invalid
\* parameter returns the media type along with the error.
ParseMediaType(v) ==
    LET base == Take(v, SemiIndex(v) - 1)
        mt   == TrimSpace(ToLower(base))
        ps   == Params(Drop(v, Len(base)), {})
    IN  IF ~CheckMediaTypeDisposition(mt) THEN [ok |-> FALSE, mediaType |-> <<>>]
        ELSE IF ps = "invalid" THEN [ok |-> FALSE, mediaType |-> mt]
        ELSE IF ps = "duplicate" THEN [ok |-> FALSE, mediaType |-> <<>>]
        ELSE [ok |-> TRUE, mediaType |-> mt]


(***************************************************************************)
(* Media types and header values.                                          *)
(***************************************************************************)
Application == <<"a","p","p","l","i","c","a","t","i","o","n">>
ApplicationCap == <<"A","p","p","l","i","c","a","t","i","o","n">>
Text == <<"t","e","x","t">>
Json == <<"j","s","o","n">>
Gob == <<"g","o","b">>
Xml == <<"x","m","l">>
XmlUpper == <<"X","M","L">>
Html == <<"h","t","m","l">>
Slash == <<"/">>
Charset == <<";"," ","c","h","a","r","s","e","t","=","u","t","f","-","8">>

\* the codecs of the switch statements, by the package that implements them
Codecs == {"json", "gob", "xml"}

SubtypeOf(k) == CASE k = "json" -> Json [] k = "gob" -> Gob [] k = "xml" -> Xml

\* "application/json", "application/gob", "application/xml"
MediaTypeOf(k) == Application \o Slash \o SubtypeOf(k)

Supported == {MediaTypeOf(k) : k \in Codecs}

TextPlain == Text \o Slash \o <<"p","l","a","i","n">>

\* header values made of optional leading space, type, subtype and suffix
Prefixes == {<<>>, <<" ">>}
Types == {Application, ApplicationCap, Text}
Subtypes == {Json, Gob, Xml, XmlUpper, Html}
Suffixes == {<<>>, Charset, <<";">>, <<";", "=">>, <<" ", "x">>,
             <<";", "q", "=", "1", ";", "q", "=", "1">>}

\* header values of other shapes: missing, a wildcard, a bare token, a
\* missing subtype, a comma-separated list
OtherHeaders == {<<>>, <<"*", "/", "*">>, Json, Application \o Slash,
                 MediaTypeOf("xml") \o <<",", " ">> \o Text \o Slash \o Html}

Headers == {p \o t \o Slash \o u \o x :
               p \in Prefixes, t \in Types, u \in Subtypes, x \in Suffixes}
           \cup OtherHeaders

\* Accept values of the requests whose errors are encoded
ErrAccepts == {MediaTypeOf("xml") \o Charset, Text \o Slash \o Html}

(***************************************************************************)
(* Codec selection.                                                        *)
(***************************************************************************)
\* NewHTTPDecoder without lines 31-33: the switch runs on the raw header
NewHTTPDecoderRaw(r) ==
    LET contentType == IF r.ContentType = <<>> THEN MediaTypeOf("json")
                       ELSE r.ContentType
    IN  CASE contentType = MediaTypeOf("json") -> [kind |-> "json", body |-> r.id]
          [] contentType = MediaTypeOf("gob")  -> [kind |-> "gob", body |-> r.id]
          [] contentType = MediaTypeOf("xml")  -> [kind |-> "xml", body |-> r.id]
          [] OTHER -> [kind |-> "json", body |-> r.id]

\* NewHTTPDecoder(r): a decoder of the selected codec reading r.Body
NewHTTPDecoder(r) ==
    LET header == r.ContentType
        parsed == ParseMediaType(header)
        contentType == IF header = <<>> THEN MediaTypeOf("json")
                       ELSE IF parsed.ok THEN parsed.mediaType
                       ELSE header
    IN  CASE contentType = MediaTypeOf("json") -> [kind |-> "json", body |-> r.id]
          [] contentType = MediaTypeOf("gob")  -> [kind |-> "gob", body |-> r.id]
          [] contentType = MediaTypeOf("xml")  -> [kind |-> "xml", body |-> r.id]
          [] OTHER -> [kind |-> "json", body |-> r.id]

\* NewHTTPEncoder without the err == nil test of line 59: the media type
\* returned beside an error is used
NewHTTPEncoderIgnoreErr(w, r) ==
    LET header == r.Accept
        parsed == ParseMediaType(header)
        accept == IF header = <<>> THEN MediaTypeOf("json")
                  ELSE parsed.mediaType
    IN  CASE accept = MediaTypeOf("json") -> [kind |-> "json", w |-> w]
          [] accept = MediaTypeOf("gob")  -> [kind |-> "gob", w |-> w]
          [] accept = MediaTypeOf("xml")  -> [kind |-> "xml", w |-> w]
          [] OTHER -> [kind |-> "json", w |-> w]

\* NewHTTPEncoder(w, r): an encoder of the selected codec writing to w
NewHTTPEncoder(w, r) ==
    LET header == r.Accept
        parsed == ParseMediaType(header)
        accept == IF header = <<>> THEN MediaTypeOf("json")
                  ELSE IF parsed.ok THEN parsed.mediaType
                  ELSE header
    IN  CASE accept = MediaTypeOf("json") -> [kind |-> "json", w |-> w]
          [] accept = MediaTypeOf("gob")  -> [kind |-> "gob", w |-> w]
          [] accept = MediaTypeOf("xml")  -> [kind |-> "xml", w |-> w]
          [] OTHER -> [kind |-> "json", w |-> w]

\* ResponseContentType returning the header value as received when its
\* media type is supported
ResponseContentTypeRaw(r) ==
    IF r.Accept = <<>> THEN MediaTypeOf("json")
    ELSE LET parsed == ParseMediaType(r.Accept)
             accept == IF parsed.ok THEN parsed.mediaType ELSE r.Accept
         IN  IF accept \in Supported THEN r.Accept ELSE MediaTypeOf("json")

\* ResponseContentType(r)
ResponseContentType(r) ==
    IF r.Accept = <<>> THEN MediaTypeOf("json")
    ELSE LET parsed == ParseMediaType(r.Accept)
             accept == IF parsed.ok THEN parsed.mediaType ELSE r.Accept
         IN  IF accept \in Supported THEN accept ELSE MediaTypeOf("json")

(***************************************************************************)
(* Errors, error responses, correlation ids.                               *)
(***************************************************************************)
NotFound == <<"n","o","t"," ","f","o","u","n","d">>
Boom == <<"b","o","o","m">>

\* a goa.Error (it has Status()) and an error that is none
GoaErrors == {[goa |-> TRUE, status |-> 404, message |-> NotFound]}
PlainErrors == {[goa |-> FALSE, message |-> Boom]}

\* rest.HTTPStatus: the HTTP status of an error's declared status
HTTPStatus(status) == status

\* rest.NewErrorResponse: the {status, message} body of a goa.Error
NewErrorResponse(t) == [status |-> t.status, message |-> t.message]

\* what an encoder of a codec writes for a value
Encoded(kind, v) == [codec |-> kind, value |-> v]

\* http.StatusInternalServerError
StatusInternalServerError == 500

\* the alphabet of base64.RawURLEncoding
Base64URL == <<"A","B","C","D","E","F","G","H","I","J","K","L","M","N","O","P","Q","R","S","T","U","V","W","X","Y","Z","a","b","c","d","e","f","g","h","i","j","k","l","m","n","o","p","q","r","s","t","u","v","w","x","y","z","0","1","2","3","4","5","6","7","8","9","-","_">>

\* base64 of one group of three bytes: four characters
EncodeGroup(b1, b2, b3) ==
    LET n == b1 * 65536 + b2 * 256 + b3 IN
    << Base64URL[(n \div 262144) + 1], Base64URL[((n \div 4096) % 64) + 1],
       Base64URL[((n \div 64) % 64) + 1], Base64URL[(n % 64) + 1] >>

\* the same with the alphabet of base64.RawStdEncoding
EncodeToStringStd(b) ==
    [k \in 1..8 |->
        LET c == (EncodeGroup(b[1], b[2], b[3]) \o EncodeGroup(b[4], b[5], b[6]))[k]
        IN  IF c = "-" THEN "+" ELSE IF c = "_" THEN "/" ELSE c]

\* base64.RawURLEncoding.EncodeToString on the 6 bytes of b: no padding
EncodeToString(b) ==
    EncodeGroup(b[1], b[2], b[3]) \o EncodeGroup(b[4], b[5], b[6])

\* what io.ReadFull(rand.Reader, b) may leave in b (all zero when it fails)
RandomBytes == {<<0, 0, 0, 0, 0, 0>>, <<251, 255, 190, 16, 131, 7>>}

(***************************************************************************)
(* State.                                                                  *)
(***************************************************************************)
VARIABLES
    req,        \* req[i]: the headers of request i (r.Header)
    decoder,    \* decoder[i]: what NewHTTPDecoder returned for request i
    encoder,    \* encoder[i]: what NewHTTPEncoder returned for request i
    ctype,      \* ctype[i]: what ResponseContentType returned for request i
    ee,         \* ee[i]: the errorEncoder built for request i
    loggerArg,  \* loggerArg[i]: the logger passed to NewErrorHTTPEncoder
    pc,         \* pc[i]: the line Encode of request i is at
    handled,    \* handled[i]: the error Encode was called with
    id,         \* id[i]: the local variable id of Encode
    resp,       \* resp[i]: the http.ResponseWriter of request i
    trace,      \* trace[i]: the calls Encode made for request i, in order
    pkgLog,     \* the events received by package logger
    callerLog,  \* callerLog[i]: the events received by the logger of caller i
    changes     \* the number of Accept header rewrites so far

vars == <<req, decoder, encoder, ctype, ee, loggerArg, pc, handled, id, resp,
          trace, pkgLog, callerLog, changes>>

negVars == <<decoder, encoder, ctype>>
errVars == <<ee, loggerArg, pc, handled, id, resp, trace, pkgLog, callerLog>>

\* a ResponseWriter nothing was written to
EmptyResponse == [ContentType |-> NoString, status |-> <<>>, writes |-> <<>>]

\* the logging sink the caller of request i owns
CallerSink(i) == <<"logger", i>>

InitRest ==
    /\ decoder = [i \in Req |-> None]
    /\ encoder = [i \in Req |-> None]
    /\ ctype = [i \in Req |-> NoString]
    /\ ee = [i \in Req |-> None]
    /\ loggerArg = [i \in Req |-> NoString]
    /\ pc = [i \in Req |-> "idle"]
    /\ handled = [i \in Req |-> None]
    /\ id = [i \in Req |-> NoString]
    /\ resp = [i \in Req |-> EmptyResponse]
    /\ trace = [i \in Req |-> <<>>]
    /\ pkgLog = <<>>
    /\ callerLog = [i \in Req |-> <<>>]
    /\ changes = 0

\* requests whose errors are encoded: any Accept of ErrAccepts each
Init ==
    /\ req \in [Req -> [id : Req, ContentType : {<<>>}, Accept : ErrAccepts]]
    /\ \A i \in Req : req[i].id = i
    /\ InitRest

\* requests that are negotiated: one header value of Headers, as the
\* Content-Type and the Accept of each
InitNeg ==
    /\ \E h \in Headers :
         req = [i \in Req |-> [id |-> i, ContentType |-> h, Accept |-> h]]
    /\ InitRest

(***************************************************************************)
(* Negotiation calls.                                                      *)
(***************************************************************************)
CallNewHTTPDecoder(i) ==
    /\ decoder[i] = None
    /\ decoder' = [decoder EXCEPT ![i] = NewHTTPDecoder(req[i])]
    /\ UNCHANGED <<req, encoder, ctype, errVars, changes>>

CallNewHTTPEncoder(i) ==
    /\ encoder[i] = None
    /\ encoder' = [encoder EXCEPT ![i] = NewHTTPEncoder(i, req[i])]
    /\ UNCHANGED <<req, decoder, ctype, errVars, changes>>

CallResponseContentType(i) ==
    /\ ctype[i] = NoString
    /\ ctype' = [ctype EXCEPT ![i] = ResponseContentType(req[i])]
    /\ UNCHANGED <<req, decoder, encoder, errVars, changes>>

(***************************************************************************)
(* Error encoding.                                                         *)
(***************************************************************************)
\* NewErrorHTTPEncoder(w, r, logger): the struct of lines 81-85
NewErrorHTTPEncoder(w, r, logger) ==
    [w |-> w, r |-> r.id, encoder |-> NewHTTPEncoder(w, r)]

CallNewErrorHTTPEncoder(i) ==
    /\ pc[i] = "idle"
    /\ ee' = [ee EXCEPT ![i] = NewErrorHTTPEncoder(i, req[i], CallerSink(i))]
    /\ loggerArg' = [loggerArg EXCEPT ![i] = CallerSink(i)]
    /\ pc' = [pc EXCEPT ![i] = "ready"]
    /\ UNCHANGED <<req, negVars, handled, id, resp, trace, pkgLog, callerLog,
                   changes>>

\* the handler of request i rewrites r.Header["Accept"] after it built the
\* errorEncoder, which keeps the pointer r; it runs Encode synchronously, so
\* never while Encode is running
SetAccept(i, h) ==
    /\ pc[i] = "ready"
    /\ changes < MaxHeaderChanges
    /\ h # req[i].Accept
    /\ req' = [req EXCEPT ![i].Accept = h]
    /\ changes' = changes + 1
    /\ UNCHANGED <<negVars, errVars>>

\* logger.Error(ctx, keyvals...) of the imported package logger
LoggerError(ctx, keyvals) ==
    /\ pkgLog' = Append(pkgLog, [ctx |-> ctx, keyvals |-> keyvals])
    /\ UNCHANGED callerLog

\* line 95 (and 104-106 in the default case): the type switch on handled
Encode(i, err, b) ==
    /\ pc[i] = "ready"
    /\ handled' = [handled EXCEPT ![i] = err]
    /\ IF err.goa
       THEN /\ pc' = [pc EXCEPT ![i] = "L97"]
            /\ UNCHANGED id
       ELSE /\ pc' = [pc EXCEPT ![i] = "L107"]
            /\ id' = [id EXCEPT ![i] = EncodeToString(b) \o <<":", " ">>]
    /\ UNCHANGED <<req, negVars, ee, loggerArg, resp, trace, pkgLog, callerLog,
                   changes>>

\* line 97: e.w.Header().Set("Content-Type", ResponseContentType(e.r))
GoaSetContentType(i) ==
    /\ pc[i] = "L97"
    /\ resp' = [resp EXCEPT ![ee[i].w].ContentType =
                                ResponseContentType(req[ee[i].r])]
    /\ trace' = [trace EXCEPT ![i] = Append(@, "header")]
    /\ pc' = [pc EXCEPT ![i] = "L98"]
    /\ UNCHANGED <<req, negVars, ee, loggerArg, handled, id, pkgLog, callerLog,
                   changes>>

\* line 98 writing http.StatusInternalServerError for every error
GoaWriteHeader500(i) ==
    /\ pc[i] = "L98"
    /\ resp' = [resp EXCEPT ![ee[i].w].status =
                                Append(@, StatusInternalServerError)]
    /\ trace' = [trace EXCEPT ![i] = Append(@, "status")]
    /\ pc' = [pc EXCEPT ![i] = "L99"]
    /\ UNCHANGED <<req, negVars, ee, loggerArg, handled, id, pkgLog, callerLog,
                   changes>>

\* line 98: e.w.WriteHeader(rest.HTTPStatus(t.Status()))
GoaWriteHeader(i) ==
    /\ pc[i] = "L98"
    /\ resp' = [resp EXCEPT ![ee[i].w].status =
                                Append(@, HTTPStatus(handled[i].status))]
    /\ trace' = [trace EXCEPT ![i] = Append(@, "status")]
    /\ pc' = [pc EXCEPT ![i] = "L99"]
    /\ UNCHANGED <<req, negVars, ee, loggerArg, handled, id, pkgLog, callerLog,
                   changes>>

\* line 99 with the error of Encode dropped: nothing is logged
GoaEncodeBodyIgnoreErr(i, ok) ==
    /\ pc[i] = "L99"
    /\ resp' = [resp EXCEPT ![ee[i].encoder.w].writes =
                  Append(@, [data |-> Encoded(ee[i].encoder.kind,
                                              NewErrorResponse(handled[i])),
                             ok |-> ok])]
    /\ trace' = [trace EXCEPT ![i] = Append(@, "body")]
    /\ pc' = [pc EXCEPT ![i] = "done"]
    /\ UNCHANGED <<req, negVars, ee, loggerArg, handled, id, pkgLog, callerLog,
                   changes>>

\* line 99: e.encoder.Encode(rest.NewErrorResponse(t)), whose write to the
\* response succeeds (err == nil) or fails
GoaEncodeBody(i, ok) ==
    /\ pc[i] = "L99"
    /\ resp' = [resp EXCEPT ![ee[i].encoder.w].writes =
                  Append(@, [data |-> Encoded(ee[i].encoder.kind,
                                              NewErrorResponse(handled[i])),
                             ok |-> ok])]
    /\ trace' = [trace EXCEPT ![i] = Append(@, "body")]
    /\ pc' = [pc EXCEPT ![i] = IF ok THEN "done" ELSE "L101"]
    /\ UNCHANGED <<req, negVars, ee, loggerArg, handled, id, pkgLog, callerLog,
                   changes>>

\* line 101: logger.Error(e.r.Context(), "encoding", err)
GoaLogEncoding(i) ==
    /\ pc[i] = "L101"
    /\ LoggerError(ee[i].r, <<"encoding", "write failed">>)
    /\ trace' = [trace EXCEPT ![i] = Append(@, "log")]
    /\ pc' = [pc EXCEPT ![i] = "done"]
    /\ UNCHANGED <<req, negVars, ee, loggerArg, handled, id, resp, changes>>

\* lines 107 and 108 swapped: the status is written where the header is set
DefaultSetContentTypeLate(i) ==
    /\ pc[i] = "L107"
    /\ resp' = [resp EXCEPT ![ee[i].w].status =
                                Append(@, StatusInternalServerError)]
    /\ trace' = [trace EXCEPT ![i] = Append(@, "status")]
    /\ pc' = [pc EXCEPT ![i] = "L108"]
    /\ UNCHANGED <<req, negVars, ee, loggerArg, handled, id, pkgLog, callerLog,
                   changes>>

\* line 107: e.w.Header().Set("Content-Type", "text/plain")
DefaultSetContentType(i) ==
    /\ pc[i] = "L107"
    /\ resp' = [resp EXCEPT ![ee[i].w].ContentType = TextPlain]
    /\ trace' = [trace EXCEPT ![i] = Append(@, "header")]
    /\ pc' = [pc EXCEPT ![i] = "L108"]
    /\ UNCHANGED <<req, negVars, ee, loggerArg, handled, id, pkgLog, callerLog,
                   changes>>

\* line 108: e.w.WriteHeader(http.StatusInternalServerError)
DefaultWriteHeader(i) ==
    /\ pc[i] = "L108"
    /\ resp' = [resp EXCEPT ![ee[i].w].status =
                                Append(@, StatusInternalServerError)]
    /\ trace' = [trace EXCEPT ![i] = Append(@, "status")]
    /\ pc' = [pc EXCEPT ![i] = "L109"]
    /\ UNCHANGED <<req, negVars, ee, loggerArg, handled, id, pkgLog, callerLog,
                   changes>>

\* line 109 returning when the write fails: line 110 is skipped
DefaultWriteReturnOnError(i, ok) ==
    /\ pc[i] = "L109"
    /\ resp' = [resp EXCEPT ![ee[i].w].writes =
                  Append(@, [data |-> id[i] \o handled[i].message, ok |-> ok])]
    /\ trace' = [trace EXCEPT ![i] = Append(@, "body")]
    /\ pc' = [pc EXCEPT ![i] = IF ok THEN "L110" ELSE "done"]
    /\ UNCHANGED <<req, negVars, ee, loggerArg, handled, id, pkgLog, callerLog,
                   changes>>

\* line 109: e.w.Write([]byte(id + handled.Error())), which succeeds or
\* fails; its result is dropped
DefaultWrite(i, ok) ==
    /\ pc[i] = "L109"
    /\ resp' = [resp EXCEPT ![ee[i].w].writes =
                  Append(@, [data |-> id[i] \o handled[i].message, ok |-> ok])]
    /\ trace' = [trace EXCEPT ![i] = Append(@, "body")]
    /\ pc' = [pc EXCEPT ![i] = "L110"]
    /\ UNCHANGED <<req, negVars, ee, loggerArg, handled, id, pkgLog, callerLog,
                   changes>>

\* line 110: logger.Error(e.r.Context(), "id", id, "error", handled.Error())
DefaultLog(i) ==
    /\ pc[i] = "L110"
    /\ LoggerError(ee[i].r, <<"id", id[i], "error", handled[i].message>>)
    /\ trace' = [trace EXCEPT ![i] = Append(@, "log")]
    /\ pc' = [pc EXCEPT ![i] = "done"]
    /\ UNCHANGED <<req, negVars, ee, loggerArg, handled, id, resp, changes>>

(***************************************************************************)
(* Specifications.                                                         *)
(***************************************************************************)
Next ==
    \E i \in Req :
        \/ CallNewErrorHTTPEncoder(i)
        \/ \E h \in ErrAccepts : SetAccept(i, h)
        \/ \E err \in GoaErrors \cup PlainErrors, b \in RandomBytes :
              Encode(i, err, b)
        \/ GoaSetContentType(i)
        \/ GoaWriteHeader(i)
        \/ \E ok \in BOOLEAN : GoaEncodeBody(i, ok)
        \/ GoaLogEncoding(i)
        \/ DefaultSetContentType(i)
        \/ DefaultWriteHeader(i)
        \/ \E ok \in BOOLEAN : DefaultWrite(i, ok)
        \/ DefaultLog(i)

Spec == Init /\ [][Next]_vars

NextNeg ==
    \E i \in Req :
        \/ CallNewHTTPDecoder(i)
        \/ CallNewHTTPEncoder(i)
        \/ CallResponseContentType(i)

SpecNeg == InitNeg /\ [][NextNeg]_vars

(***************************************************************************)
(* Helpers of the properties.                                              *)
(***************************************************************************)
IsGoa(i) == handled[i] # None /\ handled[i].goa
IsPlain(i) == handled[i] # None /\ ~handled[i].goa

RECURSIVE CallerEvents(_)
CallerEvents(n) == IF n = 0 THEN <<>> ELSE CallerEvents(n - 1) \o callerLog[n]

\* the events of request i received by any sink
EventsFor(i) ==
    LET ofI(e) == e.ctx = i IN SelectSeq(pkgLog \o CallerEvents(NReq), ofI)

Count(t, x) == Cardinality({k \in 1..Len(t) : t[k] = x})

Base64URLChars == {Base64URL[k] : k \in 1..Len(Base64URL)}

\* ResponseContentType of a request, for each Accept value of ErrAccepts
ContentTypeFor ==
    [h \in ErrAccepts |->
        ResponseContentType([id |-> 1, ContentType |-> <<>>, Accept |-> h])]

(***************************************************************************)
(* Properties of the negotiation (under SpecNeg).                          *)
(***************************************************************************)
\* C1: a Content-Type (Accept) of application/json, application/gob or
\* application/xml, alone or followed by "; charset=utf-8", makes
\* NewHTTPDecoder (NewHTTPEncoder) return the codec of that name, bound to
\* the request's body (the response).
C1_SupportedTypeSelectsCodec ==
    \A i \in Req, k \in Codecs :
        /\ (decoder[i] # None
            /\ req[i].ContentType \in {MediaTypeOf(k), MediaTypeOf(k) \o Charset})
           => decoder[i] = [kind |-> k, body |-> i]
        /\ (encoder[i] # None
            /\ req[i].Accept \in {MediaTypeOf(k), MediaTypeOf(k) \o Charset})
           => encoder[i] = [kind |-> k, w |-> i]

C1_Witness ==
    \E i \in Req :
        /\ req[i].ContentType = MediaTypeOf("gob") \o Charset
        /\ decoder[i] # None /\ decoder[i].kind = "gob"
        /\ encoder[i] # None /\ encoder[i].kind = "gob"

\* C2 as stated: every header value that is not exactly one of the three
\* supported strings, the empty one included, selects the JSON codec.
C2_AnyOtherStringSelectsJSON ==
    \A i \in Req :
        /\ (decoder[i] # None /\ req[i].ContentType \notin Supported)
           => decoder[i].kind = "json"
        /\ (encoder[i] # None /\ req[i].Accept \notin Supported)
           => encoder[i].kind = "json"

\* the header value is missing, fails mime.ParseMediaType, or parses to a
\* media type that is none of the three supported ones
FallsBack(header) ==
    \/ header = <<>>
    \/ ~ParseMediaType(header).ok
    \/ ParseMediaType(header).mediaType \notin Supported

\* C2 (amended): a header that is empty, or fails media-type parsing, or
\* whose parsed media type is none of the three supported ones selects the
\* JSON codec, in NewHTTPDecoder and in NewHTTPEncoder; selection always
\* returns a codec, never an error.
C2_FallbackSelectsJSON ==
    \A i \in Req :
        /\ decoder[i] # None =>
             /\ decoder[i].kind \in Codecs
             /\ FallsBack(req[i].ContentType) => decoder[i].kind = "json"
        /\ encoder[i] # None =>
             /\ encoder[i].kind \in Codecs
             /\ FallsBack(req[i].Accept) => encoder[i].kind = "json"

C2_Witness ==
    \E i \in Req :
        /\ req[i].Accept = MediaTypeOf("xml") \o <<";", "=">>
        /\ ~ParseMediaType(req[i].Accept).ok
        /\ decoder[i] # None /\ decoder[i].kind = "json"
        /\ encoder[i] # None /\ encoder[i].kind = "json"

\* C3: ResponseContentType returns the media type parsed from Accept exactly
\* when that media type is one of the three supported ones, and
\* application/json for every other Accept value; its result is always one
\* of the three.
C3_ResponseContentType ==
    \A i \in Req :
        ctype[i] # NoString =>
            LET accept == req[i].Accept
                parsed == ParseMediaType(accept)
                hasType == accept # <<>> /\ parsed.ok
            IN  /\ ctype[i] \in Supported
                /\ hasType =>
                     (ctype[i] = parsed.mediaType <=> parsed.mediaType \in Supported)
                /\ ~(hasType /\ parsed.mediaType \in Supported)
                     => ctype[i] = MediaTypeOf("json")
                /\ accept = <<" ">> \o ApplicationCap \o Slash \o XmlUpper \o Charset
                     => ctype[i] = MediaTypeOf("xml")

C3_Witness ==
    \E i \in Req :
        /\ req[i].Accept = <<" ">> \o ApplicationCap \o Slash \o XmlUpper \o Charset
        /\ ctype[i] = MediaTypeOf("xml")

(***************************************************************************)
(* Properties of the error encoder (under Spec).                           *)
(***************************************************************************)
\* C4: for a goa.Error (status 404, message "not found"), once set the
\* Content-Type is ResponseContentType of the request, the one status
\* written is 404, and what is written to the body is the {status, message}
\* error response in the codec of the encoder bound by NewErrorHTTPEncoder.
C4_ClassifiedResponse ==
    \A i \in Req :
        IsGoa(i) =>
            /\ pc[i] \in {"L98", "L99", "L101", "done"}
                 => resp[i].ContentType = ContentTypeFor[req[i].Accept]
            /\ pc[i] \in {"L99", "L101", "done"} => resp[i].status = <<404>>
            /\ pc[i] \in {"L101", "done"} =>
                 /\ Len(resp[i].writes) = 1
                 /\ resp[i].writes[1].data =
                      [codec |-> ee[i].encoder.kind,
                       value |-> [status |-> 404, message |-> NotFound]]
                 /\ ee[i].encoder.w = i

C4_Witness ==
    \E i \in Req :
        /\ IsGoa(i) /\ pc[i] = "done"
        /\ resp[i].ContentType = MediaTypeOf("json")
        /\ resp[i].status = <<404>>
        /\ resp[i].writes[1].ok
        /\ resp[i].writes[1].data.codec = "json"

\* C5: for an error that is no goa.Error (message "boom"), whatever the
\* Accept header, the Content-Type is text/plain, the one status written is
\* 500 and the one write is 8 characters of the URL-safe base64 alphabet,
\* then ": ", then the message.
C5_UnclassifiedResponse ==
    \A i \in Req :
        IsPlain(i) =>
            /\ pc[i] \in {"L108", "L109", "L110", "done"}
                 => resp[i].ContentType = TextPlain
            /\ pc[i] \in {"L109", "L110", "done"} => resp[i].status = <<500>>
            /\ pc[i] \in {"L110", "done"} =>
                 /\ Len(resp[i].writes) = 1
                 /\ LET d == resp[i].writes[1].data IN
                      /\ Len(d) = 8 + 2 + Len(Boom)
                      /\ \A k \in 1..8 : d[k] \in Base64URLChars
                      /\ SubSeq(d, 9, Len(d)) = <<":", " ">> \o Boom

C5_Witness ==
    \E i \in Req :
        /\ IsPlain(i) /\ pc[i] = "done"
        /\ req[i].Accept = MediaTypeOf("xml") \o Charset
        /\ resp[i].writes[1].ok
        /\ resp[i].writes[1].data = <<"-", "_", "-", "-", "E", "I", "M", "H",
                                      ":", " ">> \o Boom

\* C6: for an error that is no goa.Error, Encode has logged nothing before
\* line 110 and exactly one event when it returns, whether the write
\* succeeded or not; the event carries the id and the message, and the id
\* logged followed by the message is what was written to the body.
C6_UnclassifiedLogsOnce ==
    \A i \in Req :
        IsPlain(i) =>
            /\ pc[i] # "done" => EventsFor(i) = <<>>
            /\ pc[i] = "done" =>
                 /\ Len(EventsFor(i)) = 1
                 /\ LET kv == EventsFor(i)[1].keyvals IN
                      /\ kv[1] = "id" /\ kv[3] = "error"
                      /\ kv[4] = Boom
                      /\ SubSeq(kv[2], 1, 8) = SubSeq(resp[i].writes[1].data, 1, 8)
                      /\ kv[2] \o kv[4] = resp[i].writes[1].data

C6_Witness ==
    \E i \in Req :
        /\ IsPlain(i) /\ pc[i] = "done"
        /\ ~resp[i].writes[1].ok
        /\ Len(EventsFor(i)) = 1

\* C7: for a goa.Error, when encoding the body fails Encode logs one
\* "encoding" event and returns; the Content-Type and the single status
\* written before are unchanged; when encoding succeeds nothing is logged.
C7_EncodingFailureLogged ==
    \A i \in Req :
        IsGoa(i) =>
            /\ pc[i] # "done" => EventsFor(i) = <<>>
            /\ pc[i] \in {"L101", "done"} =>
                 /\ resp[i].ContentType = ContentTypeFor[req[i].Accept]
                 /\ resp[i].status = <<HTTPStatus(handled[i].status)>>
                 /\ Len(resp[i].writes) = 1
                 /\ pc[i] = "L101" => ~resp[i].writes[1].ok
            /\ (pc[i] = "done" /\ ~resp[i].writes[1].ok) =>
                 /\ Len(EventsFor(i)) = 1
                 /\ EventsFor(i)[1].keyvals[1] = "encoding"
            /\ (pc[i] = "done" /\ resp[i].writes[1].ok) => EventsFor(i) = <<>>

C7_Witness ==
    \E i \in Req :
        /\ IsGoa(i) /\ pc[i] = "done"
        /\ ~resp[i].writes[1].ok
        /\ Len(EventsFor(i)) = 1
        /\ resp[i].status = <<HTTPStatus(handled[i].status)>>

\* C8 as stated: every event logged while encoding the error of request i
\* is received by the logger passed to NewErrorHTTPEncoder for request i,
\* and by no other sink.
C8_EventsGoToSuppliedLogger ==
    /\ pkgLog = <<>>
    /\ \A i \in Req :
         (pc[i] = "done" /\ IsPlain(i)) =>
             /\ loggerArg[i] = CallerSink(i)
             /\ Len(callerLog[i]) = 1

\* C9 as stated: NewHTTPEncoder and ResponseContentType agree on every
\* Accept value, and the Content-Type set by Encode for a goa.Error names
\* the codec of the encoder bound by NewErrorHTTPEncoder, whatever happened
\* to the request in between.
C9_ContentTypeNamesBoundEncoder ==
    \A i \in Req :
        /\ MediaTypeOf(NewHTTPEncoder(i, req[i]).kind) = ResponseContentType(req[i])
        /\ (IsGoa(i) /\ pc[i] \in {"L98", "L99", "L101", "done"})
           => resp[i].ContentType = MediaTypeOf(ee[i].encoder.kind)

\* the calls Encode may have made so far, in order
OrderedCalls == <<"header", "status", "body", "log">>

\* C10: for every request, under every interleaving, the calls of Encode
\* are a prefix of: set Content-Type, write the status (once), write the
\* body, log; the response holds what those calls wrote; only the calls of
\* the branch of the handled error were made.
C10_PerResponseOrder ==
    \A i \in Req :
        LET t == trace[i] IN
        /\ Len(t) <= 4 /\ t = SubSeq(OrderedCalls, 1, Len(t))
        /\ (resp[i].ContentType # NoString) <=> Count(t, "header") = 1
        /\ Len(resp[i].status) = Count(t, "status")
        /\ Len(resp[i].writes) = Count(t, "body")
        /\ Len(EventsFor(i)) = Count(t, "log")
        /\ IsGoa(i) =>
             /\ resp[i].ContentType \in Supported \cup {NoString}
             /\ \A k \in 1..Len(resp[i].status) :
                    resp[i].status[k] = HTTPStatus(handled[i].status)
             /\ \A k \in 1..Len(EventsFor(i)) : EventsFor(i)[k].keyvals[1] = "encoding"
        /\ IsPlain(i) =>
             /\ resp[i].ContentType \in {TextPlain, NoString}
             /\ \A k \in 1..Len(resp[i].status) :
                    resp[i].status[k] = StatusInternalServerError
             /\ \A k \in 1..Len(EventsFor(i)) : EventsFor(i)[k].keyvals[1] = "id"
        /\ handled[i] = None => t = <<>>

\* two Encode calls of different branches in flight at once: request 1 in
\* the goa.Error branch before its body, request 2 in the other before its log
C10_Witness ==
    /\ pc[1] = "L99" /\ IsGoa(1)
    /\ pc[2] = "L110" /\ IsPlain(2)
    /\ trace[1] = <<"header", "status">>
    /\ trace[2] = <<"header", "status", "body">>

=============================================================================
